---- MODULE Spec2Model ----
(***************************************************************************)
(* A model of The Stock Analyzer (task/main.py): the market-data client    *)
(* retrieve_stock_data, the client factory get_client, the provisioner     *)
(* get_or_create_assistant, the run driver create_thread_and_run and main. *)
(*                                                                         *)
(* JSON texts are TLA+ strings.  A parsed JSON value is a record           *)
(*   [kind |-> "object" | "other" | "invalid", items |-> <<<<k, v>>, ...>>]*)
(* where an object is the ordered sequence of its members (a Python dict   *)
(* keeps insertion order).  The model's JSON objects are flat: member      *)
(* values are strings.                                                     *)
(***************************************************************************)
EXTENDS Integers, Sequences, FiniteSets, TLC

(***************************************************************************)
(* json.dumps / json.loads                                                 *)
(***************************************************************************)

\* The character of s at position i, "" past the end.
Ch(s, i) == IF i >= 1 /\ i <= Len(s) THEN SubSeq(s, i, i) ELSE ""

JsonWhitespace == {" ", "\t", "\n", "\r"}

RECURSIVE SkipWs(_, _)
\* The first position at or after i that holds no JSON whitespace.
SkipWs(s, i) == IF Ch(s, i) \in JsonWhitespace THEN SkipWs(s, i + 1) ELSE i

\* json.dumps escapes: one character of a string as it is written in JSON.
EscapeChar(c) ==
  CASE c = "\"" -> "\\\""
    [] c = "\\" -> "\\\\"
    [] c = "\n" -> "\\n"
    [] c = "\t" -> "\\t"
    [] c = "\r" -> "\\r"
    [] OTHER -> c

RECURSIVE EscapeFrom(_, _)
EscapeFrom(s, i) ==
  IF i > Len(s) THEN "" ELSE EscapeChar(Ch(s, i)) \o EscapeFrom(s, i + 1)

\* A Python str as a JSON string literal.
DumpsString(s) == "\"" \o EscapeFrom(s, 1) \o "\""

RECURSIVE DumpsMembers(_, _)
DumpsMembers(items, i) ==
  IF i > Len(items) THEN ""
  ELSE (IF i > 1 THEN ", " ELSE "")
       \o DumpsString(items[i][1]) \o ": " \o DumpsString(items[i][2])
       \o DumpsMembers(items, i + 1)

\* json.dumps of a dict, with the default separators ", " and ": ".
DumpsObject(items) == "{" \o DumpsMembers(items, 1) \o "}"

\* json.dumps(result) of a parsed value.
Dumps(v) == IF v.kind = "object" THEN DumpsObject(v.items) ELSE v.lit

ParseFail == [ok |-> FALSE, val |-> "", next |-> 0]

\* The character an escape sequence \e stands for, "" when e is no escape.
Unescape(e) ==
  CASE e = "\"" -> "\""
    [] e = "\\" -> "\\"
    [] e = "/" -> "/"
    [] e = "n" -> "\n"
    [] e = "t" -> "\t"
    [] e = "r" -> "\r"
    [] OTHER -> ""

RECURSIVE ScanString(_, _, _)
\* The body of a JSON string from position j (after the opening quote).
ScanString(s, j, acc) ==
  LET c == Ch(s, j) IN
  IF c = "" \/ c \in {"\n", "\t", "\r"} THEN ParseFail
  ELSE IF c = "\"" THEN [ok |-> TRUE, val |-> acc, next |-> j + 1]
  ELSE IF c = "\\"
       THEN IF Unescape(Ch(s, j + 1)) = "" THEN ParseFail
            ELSE ScanString(s, j + 2, acc \o Unescape(Ch(s, j + 1)))
  ELSE ScanString(s, j + 1, acc \o c)

\* A JSON string literal starting at position i.
ParseString(s, i) == IF Ch(s, i) = "\"" THEN ScanString(s, i + 1, "") ELSE ParseFail

RECURSIVE SetMember(_, _, _, _)
\* dict[k] = v: replaces the value of an existing key in place, else appends.
SetMember(items, k, v, i) ==
  IF i > Len(items) THEN Append(items, <<k, v>>)
  ELSE IF items[i][1] = k THEN [items EXCEPT ![i] = <<k, v>>]
  ELSE SetMember(items, k, v, i + 1)

ObjFail == [ok |-> FALSE, items |-> <<>>, next |-> 0]

RECURSIVE ParseMembers(_, _, _)
\* The members of an object from position i, which holds a key's opening quote.
ParseMembers(s, i, acc) ==
  LET key == ParseString(s, i) IN
  IF ~key.ok THEN ObjFail
  ELSE LET colon == SkipWs(s, key.next) IN
       IF Ch(s, colon) # ":" THEN ObjFail
       ELSE LET val == ParseString(s, SkipWs(s, colon + 1)) IN
            IF ~val.ok THEN ObjFail
            ELSE LET after == SkipWs(s, val.next)
                     items == SetMember(acc, key.val, val.val, 1) IN
                 IF Ch(s, after) = "}"
                 THEN [ok |-> TRUE, items |-> items, next |-> after + 1]
                 ELSE IF Ch(s, after) = ","
                 THEN ParseMembers(s, SkipWs(s, after + 1), items)
                 ELSE ObjFail

\* A JSON object starting at position i, which holds "{".
ParseObject(s, i) ==
  LET first == SkipWs(s, i + 1) IN
  IF Ch(s, first) = "}" THEN [ok |-> TRUE, items |-> <<>>, next |-> first + 1]
  ELSE ParseMembers(s, first, <<>>)

JsonInvalid == [items |-> <<>>, kind |-> "invalid", lit |-> ""]

\* A parsed document that is no object: lit is its canonical JSON text.
JsonOther(lit) == [items |-> <<>>, kind |-> "other", lit |-> lit]

\* A parsed object (a dict) with the given members.
JsonObject(items) == [items |-> items, kind |-> "object", lit |-> ""]

\* JSON documents that are not objects and not strings.
JsonLiterals == {"null", "true", "false", "[]"}

\* json.loads(text): the parsed document; "invalid" stands for JSONDecodeError.
Loads(s) ==
  LET start == SkipWs(s, 1) IN
  IF Ch(s, start) = "{"
  THEN LET obj == ParseObject(s, start) IN
       IF obj.ok /\ SkipWs(s, obj.next) > Len(s)
       THEN JsonObject(obj.items)
       ELSE JsonInvalid
  ELSE IF Ch(s, start) = "\""
  THEN LET str == ParseString(s, start) IN
       IF str.ok /\ SkipWs(s, str.next) > Len(s)
       THEN JsonOther(DumpsString(str.val))
       ELSE JsonInvalid
  ELSE IF \E lit \in JsonLiterals :
            /\ Len(s) >= start + Len(lit) - 1
            /\ SubSeq(s, start, start + Len(lit) - 1) = lit
            /\ SkipWs(s, start + Len(lit)) > Len(s)
  THEN JsonOther(CHOOSE lit \in JsonLiterals :
                    /\ Len(s) >= start + Len(lit) - 1
                    /\ SubSeq(s, start, start + Len(lit) - 1) = lit
                    /\ SkipWs(s, start + Len(lit)) > Len(s))
  ELSE JsonInvalid

\* Whether the object holds key k.
HasKey(items, k) == \E i \in 1..Len(items) : items[i][1] = k

\* The first member's value, whatever the key.
LookupFirst(items, k) == items[1][2]

\* args[k] of a dict that holds k.
Lookup(items, k) == items[CHOOSE i \in 1..Len(items) : items[i][1] = k][2]

(***************************************************************************)
(* Values                                                                  *)
(***************************************************************************)

ASSISTANT_NAME == "stock_analyzer_assistant"
ASSISTANT_MODEL == "gpt-4o-mini"
USER_PROMPT ==
  "Retrieve and visualize the monthly time series data for the stock symbol 'AAPL' for the latest 3 months."
ALPHA_VANTAGE_URL == "https://www.alphavantage.co/query"
IMAGE_FILE == "stock-image.png"

\* assistants.list(limit=20)
ListLimit == 20
\* time.sleep(3)
SleepSeconds == 3

\* An environment variable is <<>> when unset and <<value>> when set.
Unset == <<>>
Getenv(e, name) == e[name]

\* Python truthiness of os.getenv's result: None and "" are falsy.
Truthy(v) == v # Unset /\ v[1] # ""

\* One call that leaves the process: args are its keyword arguments, outputs
\* the tool_outputs of a submission (pairs <<tool_call_id, output>>), reply
\* what came back where the program reads it: <<status, body>> of a GET,
\* <<status, action type>> of a poll, <<id>> of a thread or run creation.
CallWith(op, args, outputs, reply) ==
  [op |-> op, args |-> args, outputs |-> outputs, reply |-> reply]

Call(op, args) == CallWith(op, args, <<>>, <<>>)

RECURSIVE CountOp(_, _)
\* How many calls of the log are of operation op.
CountOp(log, op) ==
  IF log = <<>> THEN 0
  ELSE (IF Head(log).op = op THEN 1 ELSE 0) + CountOp(Tail(log), op)

(***************************************************************************)
(* retrieve_stock_data                                                     *)
(***************************************************************************)

\* A check that lets client errors through.
RaisesForServerError(status) == status >= 500 /\ status < 600

\* response.raise_for_status(): HTTPError for a 4xx or 5xx status.
RaisesForStatus(status) == status >= 400 /\ status < 600

\* A client that sends the request once more when the first answer is an
\* error status.
retrieve_stock_data_retrying(function, symbol, e, resp) ==
  LET api_key == Getenv(e, "ALPHA_VANTAGE_API_KEY") IN
  IF ~Truthy(api_key)
  THEN [raised |-> "RuntimeError", value |-> JsonInvalid, calls |-> <<>>]
  ELSE LET get == CallWith("requests.get",
                           << <<"url", ALPHA_VANTAGE_URL>>,
                              <<"function", function>>,
                              <<"symbol", symbol>>,
                              <<"apikey", api_key[1]>> >>,
                           <<>>, <<ToString(resp.status), resp.body>>) IN
       IF resp.status = 0
       THEN [raised |-> "RequestException", value |-> JsonInvalid, calls |-> <<get>>]
       ELSE IF RaisesForStatus(resp.status)
       THEN [raised |-> "HTTPError", value |-> JsonInvalid, calls |-> <<get, get>>]
       ELSE IF Loads(resp.body).kind = "invalid"
       THEN [raised |-> "requests.JSONDecodeError", value |-> JsonInvalid, calls |-> <<get>>]
       ELSE [raised |-> "", value |-> Loads(resp.body), calls |-> <<get>>]

\* retrieve_stock_data(function, symbol) in environment e, when the provider
\* answers resp = [status, body]; status 0 stands for no answer (requests.get
\* raises Timeout or ConnectionError).  raised is "" on a normal return.
retrieve_stock_data(function, symbol, e, resp) ==
  LET api_key == Getenv(e, "ALPHA_VANTAGE_API_KEY") IN
  IF ~Truthy(api_key)
  THEN [raised |-> "RuntimeError", value |-> JsonInvalid, calls |-> <<>>]
  ELSE LET get == CallWith("requests.get",
                           << <<"url", ALPHA_VANTAGE_URL>>,
                              <<"function", function>>,
                              <<"symbol", symbol>>,
                              <<"apikey", api_key[1]>> >>,
                           <<>>, <<ToString(resp.status), resp.body>>) IN
       IF resp.status = 0
       THEN [raised |-> "RequestException", value |-> JsonInvalid, calls |-> <<get>>]
       ELSE IF RaisesForStatus(resp.status)
       THEN [raised |-> "HTTPError", value |-> JsonInvalid, calls |-> <<get>>]
       ELSE IF Loads(resp.body).kind = "invalid"
       THEN [raised |-> "requests.JSONDecodeError", value |-> JsonInvalid, calls |-> <<get>>]
       ELSE [raised |-> "", value |-> Loads(resp.body), calls |-> <<get>>]

(***************************************************************************)
(* get_client                                                              *)
(***************************************************************************)

NoClient == [api_key |-> "", base_url |-> ""]

\* get_client() in environment e (the environment after load_dotenv());
\* base_url "" stands for the library's default.
get_client(e) ==
  LET api_key == Getenv(e, "OPENAI_API_KEY")
      base_url == Getenv(e, "OPENAI_BASE_URL") IN
  IF ~Truthy(api_key)
  THEN [raised |-> "RuntimeError", client |-> NoClient]
  ELSE IF Truthy(base_url)
  THEN [raised |-> "", client |-> [api_key |-> api_key[1], base_url |-> base_url[1]]]
  ELSE [raised |-> "", client |-> [api_key |-> api_key[1], base_url |-> ""]]

(***************************************************************************)
(* get_or_create_assistant                                                 *)
(***************************************************************************)

NoAssistant == [name |-> "", id |-> "", model |-> ""]

Min(a, b) == IF a < b THEN a ELSE b

\* A page one assistant short.
ListPageShort(backend) == SubSeq(backend, 1, Min(ListLimit - 1, Len(backend)))

\* The page assistants.list(limit=20) returns: the first 20 of the backend.
ListPage(backend) == SubSeq(backend, 1, Min(ListLimit, Len(backend)))

\* A search that keeps the last listed assistant with the fixed name.
LastNamed(page) ==
  IF \E i \in 1..Len(page) : page[i].name = ASSISTANT_NAME
  THEN page[CHOOSE i \in 1..Len(page) :
              /\ page[i].name = ASSISTANT_NAME
              /\ \A j \in (i + 1)..Len(page) : page[j].name # ASSISTANT_NAME]
  ELSE NoAssistant

\* The loop of lines 56-60: the first listed assistant with the fixed name.
FirstNamed(page) ==
  IF \E i \in 1..Len(page) : page[i].name = ASSISTANT_NAME
  THEN page[CHOOSE i \in 1..Len(page) :
              /\ page[i].name = ASSISTANT_NAME
              /\ \A j \in 1..(i - 1) : page[j].name # ASSISTANT_NAME]
  ELSE NoAssistant

\* The assistant assistants.create returns: the fixed definition under a new id.
Created(backend) ==
  [name |-> ASSISTANT_NAME,
   id |-> "asst_" \o ToString(Len(backend) + 1),
   model |-> ASSISTANT_MODEL]

\* get_or_create_assistant(client) against a backend (newest first):
\* the assistant returned, the calls made, and the backend afterwards.
get_or_create_assistant(backend) ==
  LET list == Call("assistants.list", << <<"limit", ToString(ListLimit)>> >>)
      existing == FirstNamed(ListPage(backend)) IN
  IF existing # NoAssistant
  THEN [assistant |-> existing, calls |-> <<list>>, backend |-> backend]
  ELSE [assistant |-> Created(backend),
        calls |-> <<list, Call("assistants.create",
                               << <<"name", ASSISTANT_NAME>>,
                                  <<"model", ASSISTANT_MODEL>> >>)>>,
        backend |-> <<Created(backend)>> \o backend]

(***************************************************************************)
(* create_thread_and_run: the pure parts                                   *)
(***************************************************************************)

ToolAliases == {"retrieve_stock_data", "get_stock_data"}

\* A result that is the error text alone, with the tool's name left out.
UnknownToolResultNameless(tool_name) ==
  [raised |-> "", value |-> JsonObject(<< <<"error", "Unknown tool">> >>), calls |-> <<>>]

\* Line 171: result = {"error": f"Unknown tool: {tool_name}"}
UnknownToolResult(tool_name) ==
  [raised |-> "",
   value |-> JsonObject(<< <<"error", "Unknown tool: " \o tool_name>> >>),
   calls |-> <<>>]

\* Lines 163-171: the result of one tool call; raised is "" when it has one.
tool_result(tool_call, e, resp) ==
  LET args == Loads(tool_call.arguments) IN
  IF args.kind = "invalid"
  THEN [raised |-> "JSONDecodeError", value |-> JsonInvalid, calls |-> <<>>]
  ELSE IF tool_call.name \in ToolAliases
  THEN IF args.kind # "object"
       THEN [raised |-> "TypeError", value |-> JsonInvalid, calls |-> <<>>]
       ELSE IF ~HasKey(args.items, "function") \/ ~HasKey(args.items, "symbol")
       THEN [raised |-> "KeyError", value |-> JsonInvalid, calls |-> <<>>]
       ELSE retrieve_stock_data(Lookup(args.items, "function"),
                                Lookup(args.items, "symbol"), e, resp)
  ELSE UnknownToolResult(tool_call.name)

\* An entry keyed by the tool's name instead of the call's id.
ToolOutputByName(tool_call, result) == <<tool_call.name, Dumps(result)>>

\* Lines 173-178: the entry appended to tool_outputs.
ToolOutput(tool_call, result) == <<tool_call.id, Dumps(result)>>

\* The branch with the break of the completed case left out.
AfterPollNoBreak(r) ==
  IF r.status = "requires_action"
  THEN IF r.action = "submit_tool_outputs" THEN "tools" ELSE "poll"
  ELSE IF r.status \in {"queued", "in_progress"} THEN "sleep"
  ELSE IF r.status = "completed" THEN "poll"
  ELSE "break"

\* The branch with a sleep added where an action of another type is required.
AfterPollSleepOnAction(r) ==
  IF r.status = "requires_action"
  THEN IF r.action = "submit_tool_outputs" THEN "tools" ELSE "sleep"
  ELSE IF r.status \in {"queued", "in_progress"} THEN "sleep"
  ELSE IF r.status = "completed" THEN "break"
  ELSE "break"

\* The branch with the loop left where an action of another type is required.
AfterPollBreakOnAction(r) ==
  IF r.status = "requires_action"
  THEN IF r.action = "submit_tool_outputs" THEN "tools" ELSE "break"
  ELSE IF r.status \in {"queued", "in_progress"} THEN "sleep"
  ELSE IF r.status = "completed" THEN "break"
  ELSE "break"

\* Lines 148-203: where the loop goes after a poll returned run r:
\* "tools" (the batch), "poll" (straight back), "sleep" (sleep, then poll)
\* or "break".
AfterPoll(r) ==
  IF r.status = "requires_action"
  THEN IF r.action = "submit_tool_outputs" THEN "tools" ELSE "poll"
  ELSE IF r.status \in {"queued", "in_progress"} THEN "sleep"
  ELSE IF r.status = "completed" THEN "break"
  ELSE "break"

RECURSIVE LStrip(_)
LStrip(s) == IF s # "" /\ Ch(s, 1) \in JsonWhitespace THEN LStrip(SubSeq(s, 2, Len(s))) ELSE s

RECURSIVE RStrip(_)
RStrip(s) ==
  IF s # "" /\ Ch(s, Len(s)) \in JsonWhitespace THEN RStrip(SubSeq(s, 1, Len(s) - 1)) ELSE s

\* str.strip()
Strip(s) == RStrip(LStrip(s))

\* str.startswith(prefix)
StartsWith(s, prefix) == Len(s) >= Len(prefix) /\ SubSeq(s, 1, Len(prefix)) = prefix

\* Line 207: the assistant-role messages, in list order.
AssistantMessages(msgs) == SelectSeq(msgs, LAMBDA m : m.role = "assistant")

RECURSIVE JoinText(_, _)
\* Lines 211-215: "\n".join of the text parts of a message's content.
JoinText(content, first) ==
  IF content = <<>> THEN ""
  ELSE IF Head(content).type = "text"
  THEN (IF first THEN "" ELSE "\n") \o Head(content).value
       \o JoinText(Tail(content), FALSE)
  ELSE JoinText(Tail(content), first)

RECURSIVE PartsFileId(_)
\* Lines 233-241: the inner loop over one message's parts, up to its break.
PartsFileId(content) ==
  IF content = <<>> THEN ""
  ELSE IF Head(content).type = "image_file" THEN Head(content).value
  ELSE IF Head(content).type = "text" /\ StartsWith(Strip(Head(content).value), "file-")
  THEN Strip(Head(content).value)
  ELSE PartsFileId(Tail(content))

\* A scan that looks at the newest assistant message only.
FindFileIdNewestOnly(msgs) ==
  IF AssistantMessages(msgs) = <<>> THEN ""
  ELSE PartsFileId(AssistantMessages(msgs)[1].content)

RECURSIVE FindFileId(_)
\* Lines 229-243: the file id, "" for none (None and "" are both falsy).
FindFileId(msgs) ==
  IF msgs = <<>> THEN ""
  ELSE IF Head(msgs).role # "assistant" THEN FindFileId(Tail(msgs))
  ELSE IF PartsFileId(Head(msgs).content) # "" THEN PartsFileId(Head(msgs).content)
  ELSE FindFileId(Tail(msgs))

(***************************************************************************)
(* Bounds and the values the outside world may supply                      *)
(***************************************************************************)

\* Polls of one run the model follows.
MaxPolls == 3
\* Tool calls the remote run requests in all, over its batches.
MaxToolCalls == 2
\* Assistant messages in the thread when it is listed.
MaxMessages == 2
\* Assistants the backend holds beyond the listed page.
MaxPad == 1
\* Assistants of either name that follow the backend's run of other names.
MaxMix == 2
\* Successive get_or_create_assistant calls.
MaxProvisions == 2

\* All sequences over S of length at most n.
SeqsUpTo(S, n) == UNION {[1..k -> S] : k \in 0..n}

EnvValues == {Unset, <<"">>, <<"key">>}

SeriesKinds ==
  {"TIME_SERIES_INTRADAY", "TIME_SERIES_DAILY", "TIME_SERIES_WEEKLY", "TIME_SERIES_MONTHLY"}

Tickers == {"AAPL", "IBM", "BRK.B \"x\""}

MonthlyBody ==
  "{\"Meta Data\": \"Monthly \\\"Adjusted\\\" Prices\", \"2024-01-31\" :\"184.40\"}"
NoteBody == "{\"Note\":\"rate limit\"}"
HtmlBody == "<html>Bad Gateway</html>"

\* What the provider may answer to one GET.
AllResponses ==
  [status : {200, 204, 304, 404, 500}, body : {MonthlyBody, NoteBody, HtmlBody, "", "[]"}]
    \cup {[status |-> 0, body |-> ""]}

\* The answers the driver's runs are followed under.
DriverResponses ==
  {[status |-> 200, body |-> MonthlyBody], [status |-> 500, body |-> NoteBody]}

\* The remote's arguments text for (function, symbol), written compactly.
CompactArgs(function, symbol) ==
  "{\"function\":" \o DumpsString(function) \o ",\"symbol\":" \o DumpsString(symbol) \o "}"

\* The same arguments, symbol first and with whitespace.
SpacedArgs(function, symbol) ==
  "{ \"symbol\": " \o DumpsString(symbol) \o ",\n  \"function\": " \o DumpsString(function) \o " }"

\* The tool calls a requires_action batch is made of: name and arguments text.
ToolCallKinds ==
  {[name |-> "retrieve_stock_data", arguments |-> CompactArgs("TIME_SERIES_MONTHLY", "AAPL")],
   [name |-> "get_stock_data", arguments |-> SpacedArgs("TIME_SERIES_DAILY", "BRK.B \"x\"")],
   [name |-> "retrieve_stock_data", arguments |-> "{\"function\": \"TIME_SERIES_DAILY\"}"],
   [name |-> "do_something_else", arguments |-> "{\"x\": \"1\"}"],
   [name |-> "do_something_else", arguments |-> "[]"],
   [name |-> "do_something_else", arguments |-> "not json"]}

\* The batches of at most room tool calls the remote may report at poll
\* number n, ids in batch order.
Batches(n, room) ==
  {[i \in DOMAIN b |->
      [name |-> b[i].name,
       id |-> "call_" \o ToString(n) \o "_" \o ToString(i),
       arguments |-> b[i].arguments]] :
   b \in SeqsUpTo(ToolCallKinds, room)}

PendingStatuses == {"queued", "in_progress"}
OtherStatuses == {"failed", "cancelled", "expired", "incomplete"}

RunOf(id, status, action, tool_calls) ==
  [status |-> status, id |-> id, action |-> action, tool_calls |-> tool_calls]

NoRun == RunOf("", "", "", <<>>)

\* The runs runs.retrieve may return for run id at poll number n, when the
\* remote may still request room tool calls.
RemoteRuns(id, n, room) ==
  {RunOf(id, st, "", <<>>) : st \in PendingStatuses \cup {"completed"} \cup OtherStatuses}
    \cup {RunOf(id, "requires_action", "submit_approval", <<>>)}
    \cup {RunOf(id, "requires_action", "submit_tool_outputs", b) : b \in Batches(n, room)}

\* The runs submit_tool_outputs may return.
SubmittedRuns(id) == {RunOf(id, st, "", <<>>) : st \in {"queued", "completed"}}

TextPart(value) == [value |-> value, type |-> "text"]
ImagePart(file_id) == [value |-> file_id, type |-> "image_file"]

UserMessage == [role |-> "user", content |-> <<TextPart(USER_PROMPT)>>]

\* A user message whose text looks like a file reference.
UserFileMessage == [role |-> "user", content |-> <<TextPart("file-user9")>>]

AssistantReplies ==
  {[role |-> "assistant", content |-> <<ImagePart("file-img1"), TextPart("Chart done.")>>],
   [role |-> "assistant", content |-> <<TextPart("No chart."), TextPart(" file-txt2\n")>>],
   [role |-> "assistant", content |-> <<TextPart("Sorry."), TextPart("No data.")>>],
   [role |-> "assistant", content |-> <<TextPart("See file-x3"), ImagePart("file-img4")>>],
   [role |-> "assistant", content |-> <<[value |-> "file-no5", type |-> "refusal"]>>]}

\* The message lists messages.list may return, newest first: the replies,
\* then the prompt, with or without a later user message on top.
MessageLists ==
  {top \o replies \o <<UserMessage>> :
     top \in {<<>>, <<UserFileMessage>>}, replies \in SeqsUpTo(AssistantReplies, MaxMessages)}

\* The message lists main is followed under: no reply, a reply with an image,
\* a reply without a file.
MainMessageLists ==
  {<<UserMessage>>,
   <<[role |-> "assistant", content |-> <<ImagePart("file-img1"), TextPart("Chart done.")>>],
     UserMessage>>,
   <<[role |-> "assistant", content |-> <<TextPart("Sorry."), TextPart("No data.")>>],
     UserMessage>>}

OtherAssistant(i) == [name |-> "other", id |-> "asst_" \o ToString(i), model |-> "gpt-4"]
NamedAssistant(i, model) ==
  [name |-> ASSISTANT_NAME, id |-> "asst_" \o ToString(i), model |-> model]

\* Backends: pad assistants of other names, then mix.Len assistants of either
\* name; a same-named assistant has the given model.
BackendOf(pad, mix, model) ==
  [i \in 1..(pad + Len(mix)) |->
     IF i > pad /\ mix[i - pad] THEN NamedAssistant(i, model) ELSE OtherAssistant(i)]

Backends ==
  {BackendOf(pad, mix, model) :
     pad \in 0..(ListLimit + MaxPad), mix \in SeqsUpTo(BOOLEAN, MaxMix),
     model \in {ASSISTANT_MODEL, "gpt-3.5-turbo"}}

(***************************************************************************)
(* State                                                                   *)
(***************************************************************************)

VARIABLES
  pc,            \* where the program is
  env,           \* the environment variables, after load_dotenv()
  backend,       \* the assistants the service holds, newest first
  client,        \* get_client's result
  returned,      \* the assistants get_or_create_assistant returned, in call order
  thread,        \* thread.id
  run,           \* the driver's variable run
  idx,           \* the position of the for loop over tool_calls
  tool_outputs,  \* the driver's list tool_outputs
  messages,      \* messages.data
  full_text,     \* the printed assistant response
  file_id,       \* the file id found
  fs,            \* stock-image.png: <<>> when absent, <<bytes>> when written
  raised,        \* the exception that ended the program, "" for none
  calls,         \* every call that left the process, in order
  input,         \* the arguments of a direct retrieve_stock_data call
  ret            \* the value that call returned

vars == <<pc, env, backend, client, returned, thread, run, idx, tool_outputs,
          messages, full_text, file_id, fs, raised, calls, input, ret>>

driver == <<thread, run, idx, tool_outputs, messages, full_text, file_id, fs>>

NoInput == [function |-> "", symbol |-> "", resp |-> [status |-> 0, body |-> ""]]

Blank ==
  /\ client = NoClient
  /\ returned = <<>>
  /\ thread = ""
  /\ run = NoRun
  /\ idx = 0
  /\ tool_outputs = <<>>
  /\ messages = <<>>
  /\ full_text = ""
  /\ file_id = ""
  /\ fs = <<>>
  /\ raised = ""
  /\ calls = <<>>
  /\ ret = JsonInvalid

NumPolls == CountOp(calls, "runs.retrieve")

RECURSIVE CountOutputs(_)
\* The tool outputs submitted so far, over all submissions.
CountOutputs(log) ==
  IF log = <<>> THEN 0 ELSE Len(Head(log).outputs) + CountOutputs(Tail(log))

Raise(kind) == raised' = kind /\ pc' = "raised"

(***************************************************************************)
(* main                                                                    *)
(***************************************************************************)

\* Line 257: client = get_client()
GetClient ==
  /\ pc = "get_client"
  /\ LET r == get_client(env) IN
       IF r.raised # ""
       THEN Raise(r.raised) /\ UNCHANGED client
       ELSE client' = r.client /\ pc' = "provision" /\ UNCHANGED raised
  /\ UNCHANGED <<env, backend, returned, driver, calls, input, ret>>

\* Line 258: assistant = get_or_create_assistant(client)
Provision ==
  /\ pc = "provision"
  /\ LET r == get_or_create_assistant(backend) IN
       /\ returned' = Append(returned, r.assistant)
       /\ backend' = r.backend
       /\ calls' = calls \o r.calls
  /\ pc' = "create_thread"
  /\ UNCHANGED <<env, client, driver, raised, input, ret>>

\* Lines 117-118: thread = client.beta.threads.create()
CreateThread ==
  /\ pc = "create_thread"
  /\ thread' = "thread_1"
  /\ calls' = Append(calls, CallWith("threads.create", <<>>, <<>>, <<"thread_1">>))
  /\ pc' = "add_message"
  /\ UNCHANGED <<env, backend, client, returned, run, idx, tool_outputs, messages,
                 full_text, file_id, fs, raised, input, ret>>

\* Lines 121-126: the user message
AddMessage ==
  /\ pc = "add_message"
  /\ calls' = Append(calls, Call("messages.create",
                                 << <<"thread_id", thread>>, <<"role", "user">>,
                                    <<"content", USER_PROMPT>> >>))
  /\ pc' = "create_run"
  /\ UNCHANGED <<env, backend, client, returned, driver, raised, input, ret>>

\* The run created for the first assistant the service holds, whichever
\* assistant was provisioned.
CreateRunForFirstListed ==
  /\ pc = "create_run"
  /\ calls' = Append(calls, CallWith("runs.create",
                                     << <<"thread_id", thread>>,
                                        <<"assistant_id", backend[1].id>> >>,
                                     <<>>, <<"run_1">>))
  /\ run' = RunOf("run_1", "queued", "", <<>>)
  /\ pc' = "poll"
  /\ UNCHANGED <<env, backend, client, returned, thread, idx, tool_outputs, messages,
                 full_text, file_id, fs, raised, input, ret>>

\* Lines 129-139: run = client.beta.threads.runs.create(...)
CreateRun ==
  /\ pc = "create_run"
  /\ calls' = Append(calls, CallWith("runs.create",
                                     << <<"thread_id", thread>>,
                                        <<"assistant_id", returned[Len(returned)].id>> >>,
                                     <<>>, <<"run_1">>))
  /\ run' = RunOf("run_1", "queued", "", <<>>)
  /\ pc' = "poll"
  /\ UNCHANGED <<env, backend, client, returned, thread, idx, tool_outputs, messages,
                 full_text, file_id, fs, raised, input, ret>>

\* The answers of runs.retrieve for the run created at line 129, by poll number
\* and by the tool calls the remote may still request.
RetrieveAnswers ==
  [n \in 1..MaxPolls |->
     [room \in 0..MaxToolCalls |-> RemoteRuns("run_1", n, room)]]

\* Lines 143-153 and 187-203: one poll and the branch on its status.
Poll ==
  /\ pc = "poll"
  /\ NumPolls < MaxPolls
  /\ run' \in RetrieveAnswers[NumPolls + 1][MaxToolCalls - CountOutputs(calls)]
  /\ calls' = calls
       \o <<CallWith("runs.retrieve",
                     << <<"thread_id", thread>>, <<"run_id", run.id>> >>,
                     <<>>, <<run'.status, run'.action>>)>>
       \o (IF AfterPoll(run') = "sleep"
           THEN <<Call("time.sleep", << <<"secs", ToString(SleepSeconds)>> >>)>>
           ELSE <<>>)
  /\ pc' = CASE AfterPoll(run') = "tools" -> "tools"
             [] AfterPoll(run') = "break" -> "extract"
             [] OTHER -> "poll"
  /\ IF AfterPoll(run') = "tools"
     THEN idx' = 1 /\ tool_outputs' = <<>>
     ELSE UNCHANGED <<idx, tool_outputs>>
  /\ UNCHANGED <<env, backend, client, returned, thread, messages, full_text, file_id,
                 fs, raised, input, ret>>

\* The iteration with a failure of the tool contained: an error output is
\* appended and the loop goes on.
ProcessToolCallContained ==
  /\ pc = "tools"
  /\ idx <= Len(run.tool_calls)
  /\ \E resp \in DriverResponses :
       LET r == tool_result(run.tool_calls[idx], env, resp) IN
         /\ calls' = calls \o r.calls
         /\ tool_outputs' =
              Append(tool_outputs,
                     IF r.raised # ""
                     THEN <<run.tool_calls[idx].id, "{\"error\": \"" \o r.raised \o "\"}">>
                     ELSE ToolOutput(run.tool_calls[idx], r.value))
         /\ idx' = idx + 1
         /\ UNCHANGED <<pc, raised>>
  /\ UNCHANGED <<env, backend, client, returned, thread, run, messages, full_text,
                 file_id, fs, input, ret>>

\* Lines 156-178: one iteration of the loop over tool_calls.
ProcessToolCall ==
  /\ pc = "tools"
  /\ idx <= Len(run.tool_calls)
  /\ \E resp \in DriverResponses :
       LET r == tool_result(run.tool_calls[idx], env, resp) IN
         /\ calls' = calls \o r.calls
         /\ IF r.raised # ""
            THEN Raise(r.raised) /\ UNCHANGED <<idx, tool_outputs>>
            ELSE /\ tool_outputs' = Append(tool_outputs, ToolOutput(run.tool_calls[idx], r.value))
                 /\ idx' = idx + 1
                 /\ UNCHANGED <<pc, raised>>
  /\ UNCHANGED <<env, backend, client, returned, thread, run, messages, full_text,
                 file_id, fs, input, ret>>

\* The submission that trusts the run it returns: a completed one ends the loop.
SubmitToolOutputsTrusting ==
  /\ pc = "tools"
  /\ idx > Len(run.tool_calls)
  /\ calls' = Append(calls,
                     CallWith("runs.submit_tool_outputs",
                              << <<"thread_id", thread>>, <<"run_id", run.id>> >>,
                              tool_outputs, <<>>))
  /\ \E r \in SubmittedRuns(run.id) :
       run' = r /\ pc' = IF r.status = "completed" THEN "extract" ELSE "poll"
  /\ UNCHANGED <<env, backend, client, returned, thread, idx, tool_outputs, messages,
                 full_text, file_id, fs, raised, input, ret>>

\* Lines 181-185: run = client.beta.threads.runs.submit_tool_outputs(...)
SubmitToolOutputs ==
  /\ pc = "tools"
  /\ idx > Len(run.tool_calls)
  /\ calls' = Append(calls,
                     CallWith("runs.submit_tool_outputs",
                              << <<"thread_id", thread>>, <<"run_id", run.id>> >>,
                              tool_outputs, <<>>))
  /\ \E r \in SubmittedRuns(run.id) : run' = r
  /\ pc' = "poll"
  /\ UNCHANGED <<env, backend, client, returned, thread, idx, tool_outputs, messages,
                 full_text, file_id, fs, raised, input, ret>>

\* Lines 206-218 and 252-253: list the messages, print the newest assistant text.
ListMessages(msgs) ==
  /\ pc = "extract"
  /\ messages' = msgs
  /\ IF AssistantMessages(msgs) # <<>>
     THEN /\ full_text' = JoinText(AssistantMessages(msgs)[1].content, TRUE)
          /\ pc' = "steps"
     ELSE /\ pc' = "done"
          /\ UNCHANGED full_text
  /\ calls' = Append(calls, Call("messages.list", << <<"thread_id", thread>> >>))
  /\ UNCHANGED <<env, backend, client, returned, thread, run, idx, tool_outputs,
                 file_id, fs, raised, input, ret>>

\* Lines 221-245 and 250-251: list the run's steps, look for a file id.
ListSteps ==
  /\ pc = "steps"
  /\ calls' = Append(calls, Call("steps.list",
                                 << <<"thread_id", thread>>, <<"run_id", run.id>> >>))
  /\ file_id' = FindFileId(messages)
  /\ pc' = IF FindFileId(messages) # "" THEN "download" ELSE "done"
  /\ UNCHANGED <<env, backend, client, returned, thread, run, idx, tool_outputs,
                 messages, full_text, fs, raised, input, ret>>

\* Lines 246-249: download the file and write stock-image.png.
Download ==
  /\ pc = "download"
  /\ calls' = calls \o <<Call("files.content", << <<"file_id", file_id>> >>),
                        Call("open.write", << <<"file", IMAGE_FILE>> >>)>>
  /\ fs' = <<"bytes of " \o file_id>>
  /\ pc' = "done"
  /\ UNCHANGED <<env, backend, client, returned, thread, run, idx, tool_outputs,
                 messages, full_text, file_id, raised, input, ret>>

\* The environments main is followed under.
MainEnvs ==
  [OPENAI_API_KEY : {Unset, <<"">>}, OPENAI_BASE_URL : {Unset},
   ALPHA_VANTAGE_API_KEY : {Unset, <<"key">>}]
    \cup {[OPENAI_API_KEY |-> <<"key">>, OPENAI_BASE_URL |-> Unset,
           ALPHA_VANTAGE_API_KEY |-> <<"key">>],
          [OPENAI_API_KEY |-> <<"key">>, OPENAI_BASE_URL |-> <<"http://localhost:8080/v1">>,
           ALPHA_VANTAGE_API_KEY |-> Unset]}

\* The backend main is followed under in environment e: an empty one where
\* the market-data key is missing, else one that holds the assistant twice.
MainBackend(e) ==
  IF Truthy(e["ALPHA_VANTAGE_API_KEY"])
  THEN <<OtherAssistant(1), NamedAssistant(2, "gpt-3.5-turbo"), NamedAssistant(3, ASSISTANT_MODEL)>>
  ELSE <<>>

Init ==
  /\ pc = "get_client"
  /\ env \in MainEnvs
  /\ backend = MainBackend(env)
  /\ input = NoInput
  /\ Blank

Next ==
  \/ GetClient
  \/ Provision
  \/ CreateThread
  \/ AddMessage
  \/ CreateRun
  \/ Poll
  \/ ProcessToolCall
  \/ SubmitToolOutputs
  \/ \E msgs \in MainMessageLists : ListMessages(msgs)
  \/ ListSteps
  \/ Download

\* main(), from every environment and backend of Init.
Spec == Init /\ [][Next]_vars

\* The program's steps are the statements of one thread: a statement that can
\* run does run.  Nothing is assumed of the progress of the loop over
\* tool_calls, which no property checked under FairSpec relies on.
Fairness ==
  /\ WF_vars(GetClient)
  /\ WF_vars(Provision)
  /\ WF_vars(CreateThread)
  /\ WF_vars(AddMessage)
  /\ WF_vars(CreateRun)
  /\ WF_vars(Poll)
  /\ WF_vars(SubmitToolOutputs)
  /\ WF_vars(\E msgs \in MainMessageLists : ListMessages(msgs))
  /\ WF_vars(ListSteps)
  /\ WF_vars(Download)

FairSpec == Spec /\ Fairness

(***************************************************************************)
(* get_or_create_assistant called in succession                            *)
(***************************************************************************)

GetOrCreateCall ==
  /\ pc = "provisioner"
  /\ Len(returned) < MaxProvisions
  /\ LET r == get_or_create_assistant(backend) IN
       /\ returned' = Append(returned, r.assistant)
       /\ backend' = r.backend
       /\ calls' = calls \o r.calls
  /\ UNCHANGED <<pc, env, client, driver, raised, input, ret>>

InitProvision ==
  /\ pc = "provisioner"
  /\ env = [OPENAI_API_KEY |-> <<"key">>, OPENAI_BASE_URL |-> Unset,
            ALPHA_VANTAGE_API_KEY |-> <<"key">>]
  /\ backend \in Backends
  /\ input = NoInput
  /\ Blank

SpecProvision == InitProvision /\ [][GetOrCreateCall]_vars

(***************************************************************************)
(* retrieve_stock_data called directly                                     *)
(***************************************************************************)

RetrieveCall ==
  /\ pc = "client"
  /\ LET r == retrieve_stock_data(input.function, input.symbol, env, input.resp) IN
       /\ calls' = calls \o r.calls
       /\ ret' = r.value
       /\ raised' = r.raised
       /\ pc' = IF r.raised # "" THEN "raised" ELSE "returned"
  /\ UNCHANGED <<env, backend, client, returned, driver, input>>

InitClient ==
  /\ pc = "client"
  /\ env \in [OPENAI_API_KEY : {Unset}, OPENAI_BASE_URL : {Unset},
              ALPHA_VANTAGE_API_KEY : EnvValues]
  /\ backend = <<>>
  /\ input \in [function : SeriesKinds, symbol : Tickers, resp : AllResponses]
  /\ Blank

SpecClient == InitClient /\ [][RetrieveCall]_vars

(***************************************************************************)
(* The result extraction of create_thread_and_run                          *)
(***************************************************************************)

\* The calls of a main whose run ended at its first poll with status st.
CallsUpToExtract(st) ==
  <<Call("assistants.list", << <<"limit", ToString(ListLimit)>> >>),
    CallWith("threads.create", <<>>, <<>>, <<"thread_1">>),
    Call("messages.create",
         << <<"thread_id", "thread_1">>, <<"role", "user">>, <<"content", USER_PROMPT>> >>),
    CallWith("runs.create",
             << <<"thread_id", "thread_1">>, <<"assistant_id", "asst_2">> >>,
             <<>>, <<"run_1">>),
    CallWith("runs.retrieve",
             << <<"thread_id", "thread_1">>, <<"run_id", "run_1">> >>,
             <<>>, <<st, "">>)>>

\* Line 206 is reached: the loop was left at the first poll.
InitExtract ==
  /\ pc = "extract"
  /\ env = [OPENAI_API_KEY |-> <<"key">>, OPENAI_BASE_URL |-> Unset,
            ALPHA_VANTAGE_API_KEY |-> <<"key">>]
  /\ backend = MainBackend(env)
  /\ client = get_client(env).client
  /\ returned = <<backend[2]>>
  /\ thread = "thread_1"
  /\ \E st \in {"completed", "failed"} :
       run = RunOf("run_1", st, "", <<>>) /\ calls = CallsUpToExtract(st)
  /\ idx = 0
  /\ tool_outputs = <<>>
  /\ messages = <<>>
  /\ full_text = ""
  /\ file_id = ""
  /\ fs = <<>>
  /\ raised = ""
  /\ input = NoInput
  /\ ret = JsonInvalid

NextExtract ==
  \/ \E msgs \in MessageLists : ListMessages(msgs)
  \/ ListSteps
  \/ Download

\* Lines 206-253, under every message list.
SpecExtract == InitExtract /\ [][NextExtract]_vars

(***************************************************************************)
(* Properties                                                              *)
(***************************************************************************)

\* The program locations after the poll loop, before main returns.
AfterLoop == {"extract", "steps", "download", "done"}

ExtractionOps == {"messages.list", "steps.list", "files.content", "open.write"}

AssistantServiceOps ==
  {"assistants.list", "assistants.create", "threads.create", "messages.create",
   "runs.create", "runs.retrieve", "runs.submit_tool_outputs", "messages.list",
   "steps.list", "files.content"}

NetworkOps == AssistantServiceOps \cup {"requests.get"}

\* The exceptions retrieve_stock_data ends with.
ClientFailures == {"RuntimeError", "RequestException", "HTTPError", "requests.JSONDecodeError"}

Last(seq) == seq[Len(seq)]

OfOp(log, op) == SelectSeq(log, LAMBDA c : c.op = op)

\* The position of the last poll in the log, 0 when there is none.
LastPollAt(log) ==
  IF \E i \in 1..Len(log) : log[i].op = "runs.retrieve"
  THEN CHOOSE i \in 1..Len(log) :
         /\ log[i].op = "runs.retrieve"
         /\ \A j \in (i + 1)..Len(log) : log[j].op # "runs.retrieve"
  ELSE 0

\* The calls made after the last poll.
SinceLastPoll(log) == SubSeq(log, LastPollAt(log) + 1, Len(log))

\* The driver is working on a batch of tool calls, or an exception ended it there.
InBatch == run.status = "requires_action" /\ run.action = "submit_tool_outputs" /\ idx >= 1

\* The text of {"error": "Unknown tool: <name>"} for a name that needs no escaping.
UnknownToolText(name) == "{\"error\": \"Unknown tool: " \o name \o "\"}"

\* The arguments text is JSON and, for a recognized name, an object holding
\* the fields "function" and "symbol".
ArgsUsable(tool_call) ==
  /\ Loads(tool_call.arguments).kind # "invalid"
  /\ tool_call.name \in ToolAliases =>
       /\ Loads(tool_call.arguments).kind = "object"
       /\ HasKey(Loads(tool_call.arguments).items, "function")
       /\ HasKey(Loads(tool_call.arguments).items, "symbol")

\* How many of the first i tool calls have a recognized name.
RecognizedUpTo(tool_calls, i) ==
  Cardinality({j \in 1..i : tool_calls[j].name \in ToolAliases})

\* C1 (as claimed): once the loop is left on a status other than completed,
\* the log holds no message listing, step listing, file download or file
\* write, and nothing was raised.
C1_NoExtractionAfterOtherStatus ==
  (pc \in AfterLoop /\ run.status # "completed") =>
    /\ \A i \in 1..Len(calls) : calls[i].op \notin ExtractionOps
    /\ fs = <<>>
    /\ raised = ""

\* C3 (as claimed): with a required API key missing, no call to the assistant
\* service and no HTTP GET is ever made, so none precedes the configuration
\* error.
C3_NoNetworkCallWithMissingKey ==
  (~Truthy(env["OPENAI_API_KEY"]) \/ ~Truthy(env["ALPHA_VANTAGE_API_KEY"])) =>
    \A i \in 1..Len(calls) : calls[i].op \notin NetworkOps

\* C2 (as claimed): a batch ends in a Market Data Client failure or in its
\* submission; nothing else ends it.
C2_BatchEndsInSubmitOrClientFailure ==
  (pc = "raised" /\ InBatch) => raised \in ClientFailures

\* A step that submits: the batch is submitted whole, once, in call order,
\* each output under its tool call's id; an unrecognized name's output is the
\* error text, a recognized name's output decodes to what the provider
\* answered to that call's GET.
C2_SubmitStep ==
  Len(OfOp(calls', "runs.submit_tool_outputs")) > Len(OfOp(calls, "runs.submit_tool_outputs")) =>
    /\ InBatch
    /\ OfOp(SinceLastPoll(calls), "runs.submit_tool_outputs") = <<>>
    /\ Len(calls') = Len(calls) + 1
    /\ SubSeq(calls', 1, Len(calls)) = calls
    /\ LET out == Last(calls').outputs
           gets == OfOp(SinceLastPoll(calls), "requests.get") IN
         /\ Len(out) = Len(run.tool_calls)
         /\ \A i \in 1..Len(out) :
              /\ out[i][1] = run.tool_calls[i].id
              /\ IF run.tool_calls[i].name \in ToolAliases
                 THEN /\ RecognizedUpTo(run.tool_calls, i) <= Len(gets)
                      /\ Loads(out[i][2]) =
                           Loads(gets[RecognizedUpTo(run.tool_calls, i)].reply[2])
                 ELSE out[i][2] = UnknownToolText(run.tool_calls[i].name)

\* C2 (amended): a batch all of whose arguments texts are usable ends in a
\* Market Data Client failure or in exactly one submission of its N outputs.
C2_UsableBatchSubmittedWhole ==
  /\ []((pc = "raised" /\ InBatch) =>
          (raised \in ClientFailures \/ ~ArgsUsable(run.tool_calls[idx])))
  /\ []((pc = "tools" /\ \A i \in 1..Len(run.tool_calls) : ArgsUsable(run.tool_calls[i])) =>
          OfOp(SinceLastPoll(calls), "runs.submit_tool_outputs") = <<>>)
  /\ [][C2_SubmitStep]_vars

\* A batch of two, a recognized call and an unrecognized one, was submitted.
C2_Witness ==
  \E i \in 1..Len(calls) :
    /\ calls[i].op = "runs.submit_tool_outputs"
    /\ Len(calls[i].outputs) = 2
    /\ calls[i].outputs[2][2] = UnknownToolText("do_something_else")
    /\ calls[i - 1].op = "requests.get"

\* The backend as it was before any get_or_create_assistant call: every
\* creation put one assistant in front.
InitialBackend ==
  SubSeq(backend, Len(OfOp(calls, "assistants.create")) + 1, Len(backend))

\* The ids of the assistants of seq that have the fixed name.
NamedIds(seq) == {seq[i].id : i \in {j \in 1..Len(seq) : seq[j].name = ASSISTANT_NAME}}

\* Every call so far returned one and the same assistant, one the backend
\* held under the fixed name, and none was created.
AllReturnExisting ==
  /\ OfOp(calls, "assistants.create") = <<>>
  /\ \A k \in 1..Len(returned) :
       /\ returned[k].id = returned[1].id
       /\ returned[k].id \in NamedIds(InitialBackend)

\* C4 (as claimed): on a backend that holds an assistant of the fixed name,
\* whatever else it holds, every call returns that one id and none creates.
C4_IdempotentOnAnyBackend ==
  NamedIds(InitialBackend) # {} => AllReturnExisting

\* C4 (amended): on a backend whose first 20 listed assistants include one of
\* the fixed name, every call returns that one id and none creates.
C4_IdempotentWithinPage ==
  NamedIds(SubSeq(InitialBackend, 1, Min(20, Len(InitialBackend)))) # {} => AllReturnExisting

\* Two calls on a backend of more than 20 assistants whose 20th has the name.
C4_Witness ==
  /\ Len(returned) = 2
  /\ Len(InitialBackend) > 20
  /\ InitialBackend[20].name = ASSISTANT_NAME
  /\ returned[2].id = InitialBackend[20].id

\* The state of the Run Driver's state machine.
DriverState ==
  CASE pc \in {"create_thread", "add_message", "create_run"} -> "CREATED"
    [] pc = "poll" -> "POLLING"
    [] pc = "tools" -> "REQUIRES_ACTION"
    [] pc \in AfterLoop /\ run.status = "completed" -> "COMPLETED"
    [] pc \in AfterLoop /\ run.status # "completed" -> "TERMINAL_OTHER"
    [] OTHER -> "OUTSIDE"

DriverMoves ==
  {<<"CREATED", "CREATED">>, <<"CREATED", "POLLING">>,
   <<"POLLING", "POLLING">>, <<"POLLING", "REQUIRES_ACTION">>,
   <<"POLLING", "COMPLETED">>, <<"POLLING", "TERMINAL_OTHER">>,
   <<"REQUIRES_ACTION", "REQUIRES_ACTION">>, <<"REQUIRES_ACTION", "POLLING">>,
   <<"REQUIRES_ACTION", "OUTSIDE">>,
   <<"COMPLETED", "COMPLETED">>, <<"TERMINAL_OTHER", "TERMINAL_OTHER">>,
   <<"OUTSIDE", "OUTSIDE">>, <<"OUTSIDE", "CREATED">>}

\* The calls to the assistant service, in order.
ServiceCalls(log) == SelectSeq(log, LAMBDA c : c.op \in AssistantServiceOps)

C5_Step ==
  /\ <<DriverState, DriverState'>> \in DriverMoves
  /\ Len(OfOp(calls', "runs.submit_tool_outputs")) > Len(OfOp(calls, "runs.submit_tool_outputs")) =>
       /\ DriverState = "REQUIRES_ACTION"
       /\ Last(ServiceCalls(calls)).op = "runs.retrieve"
       /\ Last(ServiceCalls(calls)).reply = <<"requires_action", "submit_tool_outputs">>
       /\ Last(ServiceCalls(calls)).args = Last(calls').args
  /\ (DriverState # "COMPLETED" /\ DriverState' = "COMPLETED") =>
       /\ Len(calls') = Len(calls) + 1
       /\ Last(calls').op = "runs.retrieve"
       /\ Last(calls').reply[1] = "completed"
  /\ DriverState \in {"COMPLETED", "TERMINAL_OTHER"} =>
       /\ OfOp(calls', "runs.retrieve") = OfOp(calls, "runs.retrieve")
       /\ OfOp(calls', "runs.submit_tool_outputs") = OfOp(calls, "runs.submit_tool_outputs")

\* C5: the driver moves only along CREATED -> POLLING <-> REQUIRES_ACTION ->
\* COMPLETED | TERMINAL_OTHER; a submission directly follows a poll of the
\* same run that returned requires_action/submit_tool_outputs; COMPLETED is
\* entered only by a poll that returned completed; after COMPLETED or
\* TERMINAL_OTHER there is no poll and no submission.
C5_DriverMovesAlongStateMachine == [][C5_Step]_vars

\* The loop was left on a completed poll after a submitted batch.
C5_Witness ==
  /\ DriverState = "COMPLETED"
  /\ pc = "done"
  /\ OfOp(calls, "runs.submit_tool_outputs") # <<>>
  /\ Len(OfOp(calls, "runs.retrieve")) >= 2

\* What each body the provider may send parses to, written out by hand.
ParsedBody(body) ==
  CASE body = MonthlyBody ->
         JsonObject(<< <<"Meta Data", "Monthly \"Adjusted\" Prices">>,
                       <<"2024-01-31", "184.40">> >>)
    [] body = NoteBody -> JsonObject(<< <<"Note", "rate limit">> >>)
    [] body = "[]" -> JsonOther("[]")
    [] OTHER -> JsonInvalid

\* The one GET of a direct call: the fixed URL, the two arguments, the key.
OneGetWithArguments ==
  /\ Len(calls) = 1
  /\ calls[1].op = "requests.get"
  /\ calls[1].args = << <<"url", "https://www.alphavantage.co/query">>,
                        <<"function", input.function>>,
                        <<"symbol", input.symbol>>,
                        <<"apikey", env["ALPHA_VANTAGE_API_KEY"][1]>> >>

KeyConfigured ==
  env["ALPHA_VANTAGE_API_KEY"] # <<>> /\ env["ALPHA_VANTAGE_API_KEY"] # <<"">>

\* C6 (as claimed): with a key, one GET carrying function, symbol and apikey,
\* the parsed body returned on a 2xx status that has a JSON body, an
\* exception on any other status; without a key, a configuration error and
\* no GET.
C6_ReturnsOn2xxRaisesOtherwise ==
  pc # "client" =>
    IF KeyConfigured
    THEN /\ OneGetWithArguments
         /\ (input.resp.status \in 200..299 /\ ParsedBody(input.resp.body).kind # "invalid") =>
              (pc = "returned" /\ ret = ParsedBody(input.resp.body))
         /\ input.resp.status \notin 200..299 => pc = "raised"
    ELSE pc = "raised" /\ raised = "RuntimeError" /\ calls = <<>>

\* C6 (amended): with a key, one GET carrying function, symbol and apikey;
\* the parsed body is returned when an answer arrives whose status is not
\* 4xx or 5xx and whose body is JSON, and an exception is raised otherwise;
\* without a key, a configuration error and no GET.
C6_ReturnsUnlessErrorStatus ==
  pc # "client" =>
    IF KeyConfigured
    THEN /\ OneGetWithArguments
         /\ IF /\ input.resp.status # 0
               /\ input.resp.status \notin 400..599
               /\ ParsedBody(input.resp.body).kind # "invalid"
            THEN pc = "returned" /\ raised = "" /\ ret = ParsedBody(input.resp.body)
            ELSE pc = "raised" /\ raised # ""
    ELSE pc = "raised" /\ raised = "RuntimeError" /\ calls = <<>>

\* A call that returned the parsed body of a 304 answer.
C6_Witness ==
  /\ pc = "returned"
  /\ input.resp.status = 304
  /\ input.symbol = "BRK.B \"x\""
  /\ ret.kind = "object"
  /\ Len(calls) = 1

\* A step that works on a recognized tool call whose arguments text the
\* remote wrote from (function, symbol), with the market-data key set.
C7_Step ==
  \A function \in SeriesKinds, symbol \in Tickers :
    ( /\ pc = "tools"
      /\ idx <= Len(run.tool_calls)
      /\ run.tool_calls[idx].name \in {"retrieve_stock_data", "get_stock_data"}
      /\ run.tool_calls[idx].arguments \in
           {CompactArgs(function, symbol), SpacedArgs(function, symbol)}
      /\ KeyConfigured ) =>
    /\ Len(calls') = Len(calls) + 1
    /\ Last(calls').op = "requests.get"
    /\ Last(calls').args[2] = <<"function", function>>
    /\ Last(calls').args[3] = <<"symbol", symbol>>
    /\ pc' = "tools" =>
         /\ Len(tool_outputs') = Len(tool_outputs) + 1
         /\ Last(tool_outputs')[1] = run.tool_calls[idx].id
         /\ Loads(Last(tool_outputs')[2]) = ParsedBody(Last(calls').reply[2])
         /\ ParsedBody(Last(calls').reply[2]).kind = "object"

\* C7: for a tool call under either alias, the GET carries the function and
\* symbol of the arguments text unmodified, and the submitted output decodes
\* to the object the client returned.
C7_ArgumentsVerbatimResultRoundTrips == [][C7_Step]_vars

\* An output for the alias call whose symbol needs escaping was submitted.
C7_Witness ==
  \E i \in 2..Len(calls) :
    /\ calls[i].op = "runs.submit_tool_outputs"
    /\ calls[i - 1].op = "requests.get"
    /\ calls[i - 1].args[3] = <<"symbol", "BRK.B \"x\"">>
    /\ calls[i - 1].args[2] = <<"function", "TIME_SERIES_DAILY">>
    /\ Len(calls[i].outputs) >= 1

\* The ids of the tool calls of the batch at hand.
BatchIds == {run.tool_calls[i].id : i \in 1..Len(run.tool_calls)}

\* The tool_call_ids of every output submitted so far.
SubmittedIds ==
  UNION {{calls[i].outputs[j][1] : j \in 1..Len(calls[i].outputs)} : i \in 1..Len(calls)}

\* The program ended in a Market Data Client failure inside a batch: nothing
\* of the batch was submitted and the last call is the failed GET or, when
\* the key is missing, a call no later than the batch's poll.
C8_FailedBatchState ==
  (pc = "raised" /\ InBatch /\ raised \in ClientFailures) =>
    /\ BatchIds \cap SubmittedIds = {}
    /\ OfOp(SinceLastPoll(calls), "runs.submit_tool_outputs") = <<>>
    /\ \A i \in 1..Len(calls) : calls[i].op \notin ExtractionOps
    /\ fs = <<>>
    /\ IF raised = "RuntimeError"
       THEN \A i \in (LastPollAt(calls) + 1)..Len(calls) : calls[i].op = "requests.get"
       ELSE Last(calls).op = "requests.get" /\ Last(calls).reply[1] \in {"0", "404", "500"}

\* A step in which the client fails (the key is missing when a recognized
\* call with usable arguments is worked on, or the GET is answered with an
\* error status) ends the program with the client's exception and leaves
\* tool_outputs alone; and no step follows an exception.
C8_Step ==
  /\ ( /\ pc = "tools"
       /\ idx <= Len(run.tool_calls)
       /\ run.tool_calls[idx].name \in {"retrieve_stock_data", "get_stock_data"}
       /\ ArgsUsable(run.tool_calls[idx])
       /\ ~KeyConfigured ) =>
       (pc' = "raised" /\ raised' = "RuntimeError" /\ calls' = calls
        /\ tool_outputs' = tool_outputs)
  /\ ( /\ pc = "tools"
       /\ Len(calls') = Len(calls) + 1
       /\ Last(calls').op = "requests.get"
       /\ Last(calls').reply[1] \in {"0", "404", "500"} ) =>
       (pc' = "raised" /\ raised' \in {"RequestException", "HTTPError"}
        /\ tool_outputs' = tool_outputs)
  /\ pc # "raised"

\* C8: a Market Data Client failure inside a batch ends the whole driver with
\* that error; no output of the batch is submitted, none is substituted, and
\* no poll, message listing or download follows.
C8_ClientFailureAbortsDriver == []C8_FailedBatchState /\ [][C8_Step]_vars

\* The GET of a batch's second call failed after the first call's output was computed.
C8_Witness ==
  /\ pc = "raised"
  /\ raised = "HTTPError"
  /\ Len(run.tool_calls) = 2
  /\ idx = 2
  /\ Len(tool_outputs) = 1

\* What a step that works on an unrecognized tool call does, as claimed: it
\* appends the error output under the call's id, calls no client, raises
\* nothing and moves to the next call.
UnknownToolContained ==
  /\ tool_outputs' =
       Append(tool_outputs,
              <<run.tool_calls[idx].id, UnknownToolText(run.tool_calls[idx].name)>>)
  /\ calls' = calls
  /\ raised' = "" /\ raised = ""
  /\ pc' = "tools"
  /\ idx' = idx + 1

AtUnknownTool ==
  /\ pc = "tools"
  /\ idx <= Len(run.tool_calls)
  /\ run.tool_calls[idx].name \notin {"retrieve_stock_data", "get_stock_data"}

\* C9 (as claimed): an unrecognized tool call is contained whatever its
\* arguments text is.
C9_UnknownToolContainedAlways == [][AtUnknownTool => UnknownToolContained]_vars

\* C9 (amended): an unrecognized tool call is contained whenever its
\* arguments text is valid JSON, of any shape; when it is not, json.loads
\* raises before the name is looked at and the driver fails.
C9_UnknownToolContainedOnJson ==
  [][AtUnknownTool =>
       IF run.tool_calls[idx].arguments \in {"{\"x\": \"1\"}", "[]"}
       THEN UnknownToolContained
       ELSE pc' = "raised" /\ raised' = "JSONDecodeError" /\ calls' = calls
            /\ tool_outputs' = tool_outputs]_vars

\* A batch went on to its second call after an unrecognized first call whose
\* arguments are JSON but no object.
C9_Witness ==
  /\ pc = "tools"
  /\ Len(run.tool_calls) = 2
  /\ idx = 2
  /\ run.tool_calls[1].name = "do_something_else"
  /\ run.tool_calls[1].arguments = "[]"
  /\ tool_outputs = <<<<run.tool_calls[1].id, "{\"error\": \"Unknown tool: do_something_else\"}">>>>

\* The statuses of the polls so far, in order.
PolledStatuses == [i \in 1..Len(OfOp(calls, "runs.retrieve")) |->
                     OfOp(calls, "runs.retrieve")[i].reply[1]]

\* Some poll returned completed or a status the loop does not know.
PolledTerminal ==
  \E i \in 1..Len(PolledStatuses) :
    PolledStatuses[i] \notin {"queued", "in_progress", "requires_action"}

\* At least one poll, and every poll returned queued or in_progress.
PolledOnlyPending ==
  /\ PolledStatuses # <<>>
  /\ \A i \in 1..Len(PolledStatuses) : PolledStatuses[i] \in {"queued", "in_progress"}

\* C10: a poll that returns completed or a terminal-other status leads to the
\* loop being left; and while every poll has returned queued or in_progress
\* the driver is in the loop, about to poll again, with nothing raised, the
\* polls and sleeps being the only calls since the run was created.
C10_LeavesOnTerminalOnly ==
  /\ PolledTerminal ~> (pc \in AfterLoop)
  /\ [](PolledOnlyPending =>
          /\ pc = "poll"
          /\ raised = ""
          /\ Last(calls).op = "time.sleep"
          /\ Len(OfOp(calls, "time.sleep")) = Len(PolledStatuses))
  /\ [](pc \in AfterLoop => PolledTerminal)

\* Three polls, all pending, and the driver still in the loop.
C10_Witness ==
  /\ Len(PolledStatuses) = 3
  /\ PolledOnlyPending
  /\ pc = "poll"

\* The call at position i of the log is a poll that returned queued or in_progress.
PendingPollAt(i) ==
  calls[i].op = "runs.retrieve" /\ calls[i].reply[1] \in {"queued", "in_progress"}

\* C11: every sleep is of 3 seconds and directly follows a poll that returned
\* queued or in_progress; every such poll is directly followed by one sleep,
\* and what follows that sleep is the next poll.  So no sleep follows a
\* submission, a poll requiring action, or a completed or other-status poll.
C11_SleepsOnceAfterPendingPollOnly ==
  \A i \in 1..Len(calls) :
    /\ calls[i].op = "time.sleep" =>
         /\ calls[i].args = << <<"secs", "3">> >>
         /\ i > 1
         /\ PendingPollAt(i - 1)
    /\ PendingPollAt(i) =>
         /\ i < Len(calls)
         /\ calls[i + 1].op = "time.sleep"
         /\ i + 1 < Len(calls) => calls[i + 2].op = "runs.retrieve"

\* A run that was polled pending (and slept on), then asked for tool outputs,
\* was polled again straight after the submission and ended: one sleep in all.
C11_Witness ==
  /\ pc \in AfterLoop
  /\ Len(OfOp(calls, "time.sleep")) = 1
  /\ \E i \in 1..(Len(calls) - 1) :
       calls[i].op = "runs.submit_tool_outputs" /\ calls[i + 1].op = "runs.retrieve"

\* The value of keyword argument k of a call.
Arg(call, k) == Lookup(call.args, k)

\* The calls that name a thread, and those that name a run as well.
ThreadOps == {"runs.retrieve", "runs.submit_tool_outputs", "messages.list", "steps.list"}
RunOps == {"runs.retrieve", "runs.submit_tool_outputs", "steps.list"}

\* Some call of operation op lies before position i of the log.
Earlier(op, i) == \E j \in 1..(i - 1) : calls[j].op = op

\* C12: the log holds at most one thread creation, one message creation and
\* one run creation, made in that order before any poll; the message is the
\* user prompt on the created thread, the run is bound to the created thread
\* and to the assistant get_or_create_assistant returned, and every poll,
\* submission, message listing and step listing names the created thread and
\* (but for the message listing) the created run.
C12_OneThreadOneMessageOneRun ==
  /\ Len(OfOp(calls, "threads.create")) <= 1
  /\ Len(OfOp(calls, "messages.create")) <= 1
  /\ Len(OfOp(calls, "runs.create")) <= 1
  /\ \A i \in 1..Len(calls) :
       /\ calls[i].op = "messages.create" =>
            /\ Earlier("threads.create", i)
            /\ calls[i].args = << <<"thread_id", OfOp(calls, "threads.create")[1].reply[1]>>,
                                  <<"role", "user">>, <<"content", USER_PROMPT>> >>
       /\ calls[i].op = "runs.create" =>
            /\ Earlier("messages.create", i)
            /\ calls[i].args = << <<"thread_id", OfOp(calls, "threads.create")[1].reply[1]>>,
                                  <<"assistant_id", returned[1].id>> >>
       /\ calls[i].op \in ThreadOps =>
            /\ Earlier("runs.create", i)
            /\ Arg(calls[i], "thread_id") = OfOp(calls, "threads.create")[1].reply[1]
       /\ calls[i].op \in RunOps =>
            Arg(calls[i], "run_id") = OfOp(calls, "runs.create")[1].reply[1]

\* A whole run: polled, a batch submitted, messages and steps listed.
C12_Witness ==
  /\ pc = "done"
  /\ \A op \in ThreadOps : OfOp(calls, op) # <<>>
  /\ returned[1].id = "asst_2"

\* The GETs of a log.
Gets(log) == OfOp(log, "requests.get")

\* The step is an iteration of the loop over tool_calls: the processing of
\* run.tool_calls[idx] is started.
StartsToolCall == pc = "tools" /\ idx <= Len(run.tool_calls)

\* A GET that was answered with an error status, or not at all, is the last
\* call of the log.
FailedGetIsLast ==
  \A i \in 1..Len(calls) :
    (calls[i].op = "requests.get" /\ calls[i].reply[1] \in {"0", "404", "500"}) =>
      i = Len(calls)

\* C13 (as claimed): a step adds one GET when it starts a tool call of a
\* recognized name, and none otherwise; so the GETs issued number the
\* recognized tool calls started.
C13_GetPerRecognizedCall ==
  [][Len(Gets(calls')) - Len(Gets(calls)) =
       IF StartsToolCall /\ run.tool_calls[idx].name \in ToolAliases THEN 1 ELSE 0]_vars

\* C13: a step adds one GET when it starts a tool call of a recognized name
\* whose arguments are usable while the provider key is configured, and none
\* otherwise, whatever GETs were issued before and whatever they returned; and
\* nothing follows a failed GET.
C13_GetPerRecognizedCallReachingProvider ==
  /\ [][Len(Gets(calls')) - Len(Gets(calls)) =
          IF /\ StartsToolCall
             /\ run.tool_calls[idx].name \in ToolAliases
             /\ ArgsUsable(run.tool_calls[idx])
             /\ KeyConfigured
          THEN 1 ELSE 0]_vars
  /\ []FailedGetIsLast

\* Two GETs with the same function and symbol, issued for tool calls of two
\* batches, the second one failing.
C13_Witness ==
  /\ Len(Gets(calls)) = 2
  /\ Gets(calls)[1].args = Gets(calls)[2].args
  /\ Gets(calls)[2].reply[1] = "500"
  /\ raised = "HTTPError"
  /\ \E i \in 1..Len(calls) :
       /\ calls[i].op = "runs.submit_tool_outputs"
       /\ \E j \in 1..(i - 1) : calls[j].op = "requests.get"

\* The values of the text parts of a message's content, in order.
TextValues(content) ==
  LET texts == SelectSeq(content, LAMBDA c : c.type = "text") IN
  [i \in 1..Len(texts) |-> texts[i].value]

RECURSIVE JoinedUpTo(_, _)
\* The first n of texts, a newline between neighbours.
JoinedUpTo(texts, n) ==
  IF n = 0 THEN ""
  ELSE IF n = 1 THEN texts[1]
  ELSE JoinedUpTo(texts, n - 1) \o "\n" \o texts[n]

\* The part is an image reference, or a text part whose value, leading
\* whitespace aside, starts with "file-".
IsFileRef(part) ==
  \/ part.type = "image_file"
  \/ /\ part.type = "text"
     /\ \E k \in 0..Len(part.value) :
          /\ \A j \in 1..k : Ch(part.value, j) \in {" ", "\t", "\n", "\r"}
          /\ Len(part.value) >= k + 5
          /\ SubSeq(part.value, k + 1, k + 5) = "file-"

\* The positions <<message, part>> of the file references of the assistant
\* messages listed.
FileRefs ==
  UNION {{<<m, p>> : p \in {q \in 1..Len(messages[m].content) :
                               IsFileRef(messages[m].content[q])}} :
         m \in {n \in 1..Len(messages) : messages[n].role = "assistant"}}

\* The first of them, in list order and then in part order.
FirstFileRef ==
  CHOOSE x \in FileRefs :
    \A y \in FileRefs : x[1] < y[1] \/ (x[1] = y[1] /\ x[2] <= y[2])

\* The identifier that reference gives.
FirstFileRefId ==
  LET part == messages[FirstFileRef[1]].content[FirstFileRef[2]] IN
  IF part.type = "image_file" THEN part.value ELSE Strip(part.value)

\* The messages have been listed.
Listed == OfOp(calls, "messages.list") # <<>>

\* C14: once the messages are listed, the text is the newline-join of the text
\* parts of the first assistant message; once the scan is done, the file id is
\* the one of the first file reference among the assistant messages; at the
\* end the file was downloaded and written once, under the fixed name, when
\* there is such a reference, and neither downloaded nor written when there
\* is none (so never without an assistant message).
C14_ExtractsNewestTextAndFirstFileRef ==
  /\ (Listed /\ AssistantMessages(messages) # <<>>) =>
       full_text = JoinedUpTo(TextValues(AssistantMessages(messages)[1].content),
                              Len(TextValues(AssistantMessages(messages)[1].content)))
  /\ (Listed /\ AssistantMessages(messages) = <<>>) =>
       pc = "done" /\ full_text = "" /\ FileRefs = {}
  /\ pc \in {"download", "done"} =>
       file_id = IF FileRefs = {} THEN "" ELSE FirstFileRefId
  /\ pc = "done" =>
       IF FileRefs # {}
       THEN /\ OfOp(calls, "files.content") = <<Call("files.content", << <<"file_id", FirstFileRefId>> >>)>>
            /\ OfOp(calls, "open.write") = <<Call("open.write", << <<"file", "stock-image.png">> >>)>>
            /\ fs = <<"bytes of " \o FirstFileRefId>>
       ELSE /\ OfOp(calls, "files.content") = <<>>
            /\ OfOp(calls, "open.write") = <<>>
            /\ fs = <<>>
  /\ pc # "done" => fs = <<>>

\* The text comes from the newest assistant message, which holds no file
\* reference, and the file from an older one, whose text part needs stripping.
C14_Witness ==
  /\ pc = "done"
  /\ Len(AssistantMessages(messages)) = 2
  /\ full_text = "Sorry.\nNo data."
  /\ FileRefs # {}
  /\ FirstFileRef = <<3, 2>>
  /\ fs = <<"bytes of file-txt2">>

\* The positions, among the first 20 assistants a backend holds, of those
\* with the fixed name.
NamedInPage(held) ==
  {i \in 1..Len(held) : i <= 20 /\ held[i].name = "stock_analyzer_assistant"}

\* The least of a non-empty set of numbers.
Least(S) == CHOOSE i \in S : \A j \in S : i <= j

\* One get_or_create_assistant call: the calls it adds to the log are one
\* list call with limit 20, followed by one create call exactly when no listed
\* assistant has the fixed name; when some have it, the first of them is
\* returned as the backend holds it, and the backend is left as it was.
C15_Step ==
  LET new == SubSeq(calls', Len(calls) + 1, Len(calls'))
      named == NamedInPage(backend) IN
  /\ Len(returned') = Len(returned) + 1
  /\ new # <<>>
  /\ new[1] = Call("assistants.list", << <<"limit", "20">> >>)
  /\ \A i \in 2..Len(new) : new[i].op # "assistants.list"
  /\ IF named # {}
     THEN /\ new = <<new[1]>>
          /\ Last(returned') = backend[Least(named)]
          /\ backend' = backend
     ELSE /\ Len(new) = 2
          /\ new[2].op = "assistants.create"
          /\ Last(returned').name = "stock_analyzer_assistant"
          /\ \A i \in 1..Len(backend) : backend[i].id # Last(returned').id

\* C15: every get_or_create_assistant call is such a call.
C15_ListsOnceCreatesIffNoneListed == [][C15_Step]_vars

\* Two listed assistants have the name, with a model other than the fixed
\* one; the first was returned as it is and only the list call was made.
C15_Witness ==
  /\ Len(returned) = 1
  /\ Cardinality(NamedInPage(backend)) = 2
  /\ returned[1] = backend[Least(NamedInPage(backend))]
  /\ returned[1].model = "gpt-3.5-turbo"
  /\ Len(calls) = 1

\* The call at position i of the log is a poll that returned requires_action
\* with an action type other than submit_tool_outputs.
OtherActionPollAt(i) ==
  /\ calls[i].op = "runs.retrieve"
  /\ calls[i].reply[1] = "requires_action"
  /\ calls[i].reply[2] # "submit_tool_outputs"

\* The last call of the log is such a poll.
OtherActionPolledLast == calls # <<>> /\ OtherActionPollAt(Len(calls))

\* At least one poll, and every poll returned requires_action with another
\* action type.
PolledOnlyOtherAction ==
  /\ OfOp(calls, "runs.retrieve") # <<>>
  /\ \A i \in 1..Len(calls) : calls[i].op = "runs.retrieve" => OtherActionPollAt(i)

\* C16: the call that follows a poll returning requires_action with another
\* action type is the next poll (no submission, no GET, no sleep, no listing);
\* right after such a poll the driver stands in the loop before the next poll
\* with nothing raised and no batch opened, and it does poll again; while the
\* remote has reported nothing else, the driver has not left the loop and has
\* done nothing but poll since it created the run.
C16_OtherActionPollsAgain ==
  /\ [](\A i \in 1..Len(calls) :
          (OtherActionPollAt(i) /\ i < Len(calls)) => calls[i + 1].op = "runs.retrieve")
  /\ [](OtherActionPolledLast => (pc = "poll" /\ raised = "" /\ run.tool_calls = <<>>))
  /\ [](PolledOnlyOtherAction =>
          /\ pc = "poll"
          /\ Last(calls).op = "runs.retrieve"
          /\ \A i \in 1..Len(calls) :
               calls[i].op \notin {"runs.submit_tool_outputs", "requests.get", "time.sleep",
                                   "messages.list", "steps.list", "files.content"})
  /\ \A k \in 1..(MaxPolls - 1) :
       (OtherActionPolledLast /\ NumPolls = k) ~> (NumPolls > k)

\* Three polls, each answered requires_action with another action type, and
\* the driver still in the loop.
C16_Witness ==
  /\ Len(OfOp(calls, "runs.retrieve")) = 3
  /\ PolledOnlyOtherAction
  /\ pc = "poll"
====
